---------------------------- MODULE Spec2Model ----------------------------
(***************************************************************************)
(* A model of kp_accessor: the KpAccessor class (kp_accessor.py) over its  *)
(* SortedDict of 3-hourly Kp values, and the loader that fills it from the *)
(* GFZ table (data_retrieval.py).                                          *)
(*                                                                         *)
(* Time is counted in ticks since 00:00 UTC of day 0; an hour has          *)
(* TicksPerHour ticks, so a tick stands for the minute/second/microsecond  *)
(* part of a datetime.  A datetime is a record [wall, off]: its wall-clock *)
(* fields, whether it carries a tzinfo, and its UTC offset in ticks.       *)
(***************************************************************************)
EXTENDS Integers, Sequences, FiniteSets, TLC

(* ------------------------------ bounds -------------------------------- *)

\* days of data the GFZ table may hold: rows for day 0 .. NumDays-1
NumDays == 3
\* resolution of the clock: ticks in one hour
TicksPerHour == 2
\* UTC offset, in ticks, of the zone west of UTC that datetimes passed in
\* may carry: less than an hour, so an offset that is no whole hour
MaxOffset == 1

(* --------------------------- datetime ---------------------------------- *)

\* timedelta(hours=3): the width of one Kp interval
GridHours == 3

\* the hour columns of one row of the table
Hours == <<0, 3, 6, 9, 12, 15, 18, 21>>

TicksPerDay == 24 * TicksPerHour

\* timedelta(hours=h)
TimedeltaHours(h) == h * TicksPerHour

\* the instant a timezone-aware datetime denotes: aware datetimes are
\* compared, hashed and subtracted by their UTC instant
Instant(dt) == dt.wall - dt.off

\* datetime(year, month, day, hour, tzinfo=timezone.utc) of a table row
Datetime(day, hour) ==
    [wall |-> day * TicksPerDay + TimedeltaHours(hour), aware |-> TRUE, off |-> 0]

\* dt.replace(tzinfo=timezone.utc): the wall fields stay, the zone is set
ReplaceTzinfoUtc(dt) == [dt EXCEPT !.aware = TRUE, !.off = 0]

\* dt.astimezone(timezone.utc): the same instant, wall fields in UTC
AstimezoneUtc(dt) == [wall |-> dt.wall - dt.off, aware |-> TRUE, off |-> 0]

\* dt.hour
HourOf(dt) == (dt.wall \div TicksPerHour) % 24

\* dt.replace(minute=0, second=0, microsecond=0)
ReplaceMinuteZero(dt) == [dt EXCEPT !.wall = dt.wall - (dt.wall % TicksPerHour)]

\* dt - timedelta(hours=h)
MinusHours(dt, h) == [dt EXCEPT !.wall = dt.wall - TimedeltaHours(h)]

\* (variant) the discretization taken on the local wall fields, without
\* the conversion to UTC
DiscretizeLocal(dt) ==
    LET d2 == ReplaceMinuteZero(dt)
    IN  MinusHours(d2, HourOf(d2) % GridHours)

\* lines 89-91 of get_kv_covering_datetime: the 3-hour discretization
Discretize(dt) ==
    LET d1 == AstimezoneUtc(dt)
        d2 == ReplaceMinuteZero(d1)
    IN  MinusHours(d2, HourOf(d2) % GridHours)

(* --------------------------- SortedDict -------------------------------- *)

\* a SortedDict: its sorted key list and its key -> value mapping; keys are
\* aware datetimes, held here by the instant that decides their ==, hash and <
EmptySd == [keys |-> <<>>, val |-> <<>>]

SdLen(s) == Len(s.keys)

SdContains(s, dt) == Instant(dt) \in DOMAIN s.val

SdGet(s, dt) == s.val[Instant(dt)]

\* bisect_left over the sorted key list: the first position (0-based) whose
\* key is not below x
RECURSIVE Bisect(_, _, _, _)
Bisect(keys, x, lo, hi) ==
    IF lo >= hi THEN lo
    ELSE LET mid == (lo + hi) \div 2
         IN  IF keys[mid + 1] < x THEN Bisect(keys, x, mid + 1, hi)
             ELSE Bisect(keys, x, lo, mid)

BisectLeft(s, dt) == Bisect(s.keys, Instant(dt), 0, Len(s.keys))

\* keys()[i] / items()[i] with Python's indexing: a negative i counts from
\* the end; InRange tells whether the subscript raises IndexError
InRange(s, i) == -SdLen(s) <= i /\ i < SdLen(s)

KeyAt(s, i) == IF i < 0 THEN s.keys[SdLen(s) + i + 1] ELSE s.keys[i + 1]

ItemAt(s, i) == <<KeyAt(s, i), s.val[KeyAt(s, i)]>>

\* (variant) the value added to the one the key already holds
SdSetItemAccumulate(s, dt, v) ==
    LET k == Instant(dt)
    IN  IF k \in DOMAIN s.val
        THEN [s EXCEPT !.val[k] = (@ + v) % 28]
        ELSE LET n == Bisect(s.keys, k, 0, Len(s.keys))
             IN  [keys |-> SubSeq(s.keys, 1, n) \o <<k>> \o SubSeq(s.keys, n + 1, Len(s.keys)),
                  val |-> (k :> v) @@ s.val]

\* time_to_kp_map[datetime_] = value
SdSetItem(s, dt, v) ==
    LET k == Instant(dt)
    IN  IF k \in DOMAIN s.val
        THEN [s EXCEPT !.val[k] = v]
        ELSE LET n == Bisect(s.keys, k, 0, Len(s.keys))
             IN  [keys |-> SubSeq(s.keys, 1, n) \o <<k>> \o SubSeq(s.keys, n + 1, Len(s.keys)),
                  val |-> (k :> v) @@ s.val]


(* ------------------------- the GFZ table -------------------------------- *)

Days == 0 .. (NumDays - 1)

\* the value in column kp_<hour> of the row of a day, in thirds of a Kp unit
KpColumn(day, hour) == (7 * day + (hour \div GridHours)) % 28

\* one row of the table: its date columns (year, month, day, held as a day
\* number) and its eight kp_<hour> columns
Row(day) == [day |-> day, kp |-> [i \in 1 .. Len(Hours) |-> KpColumn(day, Hours[i])]]

\* a row whose year/month/day columns are no calendar date
BadRow == [day |-> -1, kp |-> [i \in 1 .. Len(Hours) |-> 0]]

\* the rows of the days S from day d on, in date order
RECURSIVE TableOf(_, _)
TableOf(S, d) ==
    IF d = NumDays THEN <<>>
    ELSE (IF d \in S THEN <<Row(d)>> ELSE <<>>) \o TableOf(S, d + 1)

\* the tables pd.read_csv may hand back: rows in date order, one per day
GoodTables == {TableOf(S, 0) : S \in SUBSET Days}

\* a table that breaks off in a bad row: the rows after a bad row are never
\* reached by the loader, so the bad row is put last
Tables == GoodTables \cup {Append(t, BadRow) : t \in GoodTables}

\* what the world outside holds when _update_cache runs: whether the files
\* are on disk, whether kp.gfz.de answers, and the table that is then read
\* (none when the download fails)
Sources(cachedSet) ==
    [cached : cachedSet, up : {TRUE}, table : Tables]
        \cup [cached : cachedSet, up : {FALSE}, table : {<<>>}]

(* --------------------------- exceptions --------------------------------- *)

NoExc == [type |-> "none", msg |-> ""]

RuntimeError(msg) == [type |-> "RuntimeError", msg |-> msg]

ValueError(msg) == [type |-> "ValueError", msg |-> msg]

IndexError(msg) == [type |-> "IndexError", msg |-> msg]

MsgDownload == "Failed to download KP table from URL."
MsgBadDate == "day is out of range for month"
MsgEmpty == "Kp cache did not populate."
MsgBefore == "Requested datetime is before the earliest Kp value."
MsgFuture == "Requested datetime is in the future."
MsgLater == "Requested Kp later than the latest available Kp value."
MsgIndex == "list index out of range"

(* --------------------------- data_retrieval ----------------------------- *)

\* _download_kp_values_textfile: skipped when not forced and the file is
\* there; a failed urlretrieve is raised as RuntimeError
DownloadKpValuesTextfile(force_run, src) ==
    IF ~force_run /\ src.cached THEN NoExc
    ELSE IF src.up THEN NoExc
    ELSE RuntimeError(MsgDownload)

\* _prep_kp_table: the table read back from the file
PrepKpTable(force_run, src) == src.table

\* datetime(year=..., month=..., day=..., hour=hour, tzinfo=utc) raises
\* ValueError when the date columns are no calendar date
ValidDate(row) == row.day >= 0

\* the inner loop of _update_sorted_dict_from_kp_table: the eight hours of a row
RECURSIVE SetRow(_, _, _)
SetRow(row, i, s) ==
    IF i > Len(Hours) THEN s
    ELSE SetRow(row, i + 1, SdSetItem(s, Datetime(row.day, Hours[i]), row.kp[i]))

\* _update_sorted_dict_from_kp_table: every row in turn is written into the
\* mapping it is given; the mapping is not cleared first, and a row that
\* raises leaves the rows before it written
RECURSIVE UpdateSortedDictFromKpTable(_, _, _)
UpdateSortedDictFromKpTable(kp_table, i, s) ==
    IF i > Len(kp_table) THEN [exc |-> NoExc, sd |-> s]
    ELSE IF ~ValidDate(kp_table[i]) THEN [exc |-> ValueError(MsgBadDate), sd |-> s]
    ELSE UpdateSortedDictFromKpTable(kp_table, i + 1, SetRow(kp_table[i], 1, s))

(* ----------------------------- KpAccessor ------------------------------- *)

\* (variant) the SortedDict cleared before the table is written into it
UpdateCacheClearing(s, force_run, src) ==
    LET dl == DownloadKpValuesTextfile(force_run, src)
    IN  IF dl.type # "none" THEN [exc |-> dl, sd |-> s]
        ELSE UpdateSortedDictFromKpTable(PrepKpTable(force_run, src), 1, EmptySd)

\* KpAccessor._update_cache(force_run): [exc, sd], the exception it raises
\* (NoExc when it returns) and the SortedDict it leaves
UpdateCache(s, force_run, src) ==
    LET dl == DownloadKpValuesTextfile(force_run, src)
    IN  IF dl.type # "none" THEN [exc |-> dl, sd |-> s]
        ELSE UpdateSortedDictFromKpTable(PrepKpTable(force_run, src), 1, s)

\* the outcome of a call: the exception raised (NoExc on return), the
\* returned tuple (<<>> when none), the SortedDict left behind, whether the
\* discretization warning was emitted, how often _update_cache ran, the
\* outcome of the get_kv_covering_datetime call underneath, and
\* <<left_match_idx>> when the bisection of lines 99-104 was reached
Returned(pair, s, warned, n) ==
    [exc |-> NoExc, ret |-> pair, sd |-> s, warned |-> warned, refreshes |-> n,
     inner |-> [exc |-> NoExc, ret |-> pair], fallback |-> <<>>]

Raised(e, s, n) ==
    [exc |-> e, ret |-> <<>>, sd |-> s, warned |-> FALSE, refreshes |-> n,
     inner |-> [exc |-> e, ret |-> <<>>], fallback |-> <<>>]

\* (variant) the key nearest by distance, on either side
LeftMatchNearest(s, dt, warned, n) ==
    LET i == BisectLeft(s, dt)
    IN  IF i < SdLen(s) /\ (i = 0 \/ KeyAt(s, i) - Instant(dt) < Instant(dt) - KeyAt(s, i - 1))
        THEN Returned(ItemAt(s, i), s, warned, n)
        ELSE Returned(ItemAt(s, i - 1), s, warned, n)

\* (variant) the insertion position itself, without the step back
LeftMatchNoStepBack(s, dt, warned, n) ==
    LET left_match_idx == BisectLeft(s, dt)
    IN  IF InRange(s, left_match_idx)
        THEN Returned(ItemAt(s, left_match_idx), s, warned, n)
        ELSE Raised(IndexError(MsgIndex), s, n)

\* lines 99-104: bisection for the closest previous key
LeftMatch(s, dt, warned, n) ==
    LET left_match_idx == BisectLeft(s, dt) - 1
    IN  IF InRange(s, left_match_idx)
        THEN [Returned(ItemAt(s, left_match_idx), s, warned, n)
                 EXCEPT !.fallback = <<left_match_idx>>]
        ELSE [Raised(IndexError(MsgIndex), s, n) EXCEPT !.fallback = <<left_match_idx>>]

\* (variant) the fallback after a missed discretization without the warning
LookupNoWarn(s, dt, three_hour_discretization, n) ==
    IF SdContains(s, dt) THEN Returned(<<Instant(dt), SdGet(s, dt)>>, s, FALSE, n)
    ELSE IF three_hour_discretization
         THEN LET d == Discretize(dt)
              IN  IF SdContains(s, d) THEN Returned(<<Instant(d), SdGet(s, d)>>, s, FALSE, n)
                  ELSE LeftMatch(s, d, FALSE, n)
         ELSE LeftMatch(s, dt, FALSE, n)

\* (variant) the discretized datetime not looked up before the bisection
LookupNoDiscretizedCheck(s, dt, three_hour_discretization, n) ==
    IF SdContains(s, dt) THEN Returned(<<Instant(dt), SdGet(s, dt)>>, s, FALSE, n)
    ELSE IF three_hour_discretization
         THEN LeftMatch(s, Discretize(dt), TRUE, n)
         ELSE LeftMatch(s, dt, FALSE, n)

\* lines 83-104: the secondary exact check, the discretization, the fallback
Lookup(s, dt, three_hour_discretization, n) ==
    IF SdContains(s, dt) THEN Returned(<<Instant(dt), SdGet(s, dt)>>, s, FALSE, n)
    ELSE IF three_hour_discretization
         THEN LET d == Discretize(dt)
              IN  IF SdContains(s, d) THEN Returned(<<Instant(d), SdGet(s, d)>>, s, FALSE, n)
                  ELSE LeftMatch(s, d, TRUE, n)
         ELSE LeftMatch(s, dt, FALSE, n)

\* (variant) no check against the first key
RangeCheckNoBefore(s, nw, dt, three_hour_discretization, update_cache, n) ==
    IF Instant(dt) > KeyAt(s, -1) + TimedeltaHours(GridHours)
    THEN IF Instant(dt) > nw THEN Raised(ValueError(MsgFuture), s, n)
         ELSE LET u == update_cache[s]
              IN  IF u.exc.type # "none" THEN Raised(u.exc, u.sd, n + 1)
                  ELSE IF ~InRange(u.sd, -1) THEN Raised(IndexError(MsgIndex), u.sd, n + 1)
                  ELSE IF Instant(dt) > KeyAt(u.sd, -1) + TimedeltaHours(GridHours)
                       THEN Raised(ValueError(MsgLater), u.sd, n + 1)
                       ELSE Lookup(u.sd, dt, three_hour_discretization, n + 1)
    ELSE Lookup(s, dt, three_hour_discretization, n)

\* (variant) _update_cache run before the datetime is compared with now
RangeCheckRefreshFirst(s, nw, dt, three_hour_discretization, update_cache, n) ==
    IF Instant(dt) < KeyAt(s, 0) THEN Raised(ValueError(MsgBefore), s, n)
    ELSE IF Instant(dt) > KeyAt(s, -1) + TimedeltaHours(GridHours)
         THEN LET u == update_cache[s]
              IN  IF u.exc.type # "none" THEN Raised(u.exc, u.sd, n + 1)
                  ELSE IF Instant(dt) > nw THEN Raised(ValueError(MsgFuture), u.sd, n + 1)
                  ELSE IF ~InRange(u.sd, -1) THEN Raised(IndexError(MsgIndex), u.sd, n + 1)
                  ELSE IF Instant(dt) > KeyAt(u.sd, -1) + TimedeltaHours(GridHours)
                       THEN Raised(ValueError(MsgLater), u.sd, n + 1)
                       ELSE Lookup(u.sd, dt, three_hour_discretization, n + 1)
         ELSE Lookup(s, dt, three_hour_discretization, n)

\* (variant) no second comparison with the last key after _update_cache
RangeCheckNoRecheck(s, nw, dt, three_hour_discretization, update_cache, n) ==
    IF Instant(dt) < KeyAt(s, 0) THEN Raised(ValueError(MsgBefore), s, n)
    ELSE IF Instant(dt) > KeyAt(s, -1) + TimedeltaHours(GridHours)
         THEN IF Instant(dt) > nw THEN Raised(ValueError(MsgFuture), s, n)
              ELSE LET u == update_cache[s]
                   IN  IF u.exc.type # "none" THEN Raised(u.exc, u.sd, n + 1)
                       ELSE Lookup(u.sd, dt, three_hour_discretization, n + 1)
         ELSE Lookup(s, dt, three_hour_discretization, n)

\* (variant) a failure of _update_cache swallowed, the lookup then made on
\* the index as it is
RangeCheckIgnoreFailure(s, nw, dt, three_hour_discretization, update_cache, n) ==
    IF Instant(dt) < KeyAt(s, 0) THEN Raised(ValueError(MsgBefore), s, n)
    ELSE IF Instant(dt) > KeyAt(s, -1) + TimedeltaHours(GridHours)
         THEN IF Instant(dt) > nw THEN Raised(ValueError(MsgFuture), s, n)
              ELSE LET u == update_cache[s]
                   IN  IF u.exc.type # "none" THEN Lookup(u.sd, dt, three_hour_discretization, n + 1)
                       ELSE IF ~InRange(u.sd, -1) THEN Raised(IndexError(MsgIndex), u.sd, n + 1)
                       ELSE IF Instant(dt) > KeyAt(u.sd, -1) + TimedeltaHours(GridHours)
                            THEN Raised(ValueError(MsgLater), u.sd, n + 1)
                            ELSE Lookup(u.sd, dt, three_hour_discretization, n + 1)
         ELSE Lookup(s, dt, three_hour_discretization, n)

\* (variant) the comparison after _update_cache made with the last key
\* read before it
RangeCheckStaleLastKey(s, nw, dt, three_hour_discretization, update_cache, n) ==
    IF Instant(dt) < KeyAt(s, 0) THEN Raised(ValueError(MsgBefore), s, n)
    ELSE IF Instant(dt) > KeyAt(s, -1) + TimedeltaHours(GridHours)
         THEN IF Instant(dt) > nw THEN Raised(ValueError(MsgFuture), s, n)
              ELSE LET u == update_cache[s]
                   IN  IF u.exc.type # "none" THEN Raised(u.exc, u.sd, n + 1)
                       ELSE IF Instant(dt) > KeyAt(s, -1) + TimedeltaHours(GridHours)
                            THEN Raised(ValueError(MsgLater), u.sd, n + 1)
                            ELSE Lookup(u.sd, dt, three_hour_discretization, n + 1)
         ELSE Lookup(s, dt, three_hour_discretization, n)

\* (variant) _update_cache run for a datetime before the first key too
RangeCheckRefreshOnBefore(s, nw, dt, three_hour_discretization, update_cache, n) ==
    IF Instant(dt) < KeyAt(s, 0)
    THEN LET u == update_cache[s]
         IN  IF u.exc.type # "none" THEN Raised(u.exc, u.sd, n + 1)
             ELSE Raised(ValueError(MsgBefore), u.sd, n + 1)
    ELSE IF Instant(dt) > KeyAt(s, -1) + TimedeltaHours(GridHours)
         THEN IF Instant(dt) > nw THEN Raised(ValueError(MsgFuture), s, n)
              ELSE LET u == update_cache[s]
                   IN  IF u.exc.type # "none" THEN Raised(u.exc, u.sd, n + 1)
                       ELSE IF ~InRange(u.sd, -1) THEN Raised(IndexError(MsgIndex), u.sd, n + 1)
                       ELSE IF Instant(dt) > KeyAt(u.sd, -1) + TimedeltaHours(GridHours)
                            THEN Raised(ValueError(MsgLater), u.sd, n + 1)
                            ELSE Lookup(u.sd, dt, three_hour_discretization, n + 1)
         ELSE Lookup(s, dt, three_hour_discretization, n)

\* (variant) _update_cache run a second time before LaterThanLatest is raised
RangeCheckRetry(s, nw, dt, three_hour_discretization, update_cache, n) ==
    IF Instant(dt) < KeyAt(s, 0) THEN Raised(ValueError(MsgBefore), s, n)
    ELSE IF Instant(dt) > KeyAt(s, -1) + TimedeltaHours(GridHours)
         THEN IF Instant(dt) > nw THEN Raised(ValueError(MsgFuture), s, n)
              ELSE LET u == update_cache[s]
                   IN  IF u.exc.type # "none" THEN Raised(u.exc, u.sd, n + 1)
                       ELSE IF ~InRange(u.sd, -1) THEN Raised(IndexError(MsgIndex), u.sd, n + 1)
                       ELSE IF Instant(dt) > KeyAt(u.sd, -1) + TimedeltaHours(GridHours)
                            THEN LET again == update_cache[u.sd]
                                 IN  IF again.exc.type # "none"
                                     THEN Raised(again.exc, again.sd, n + 2)
                                     ELSE IF Instant(dt) > KeyAt(again.sd, -1)
                                                             + TimedeltaHours(GridHours)
                                          THEN Raised(ValueError(MsgLater), again.sd, n + 2)
                                          ELSE Lookup(again.sd, dt,
                                                      three_hour_discretization, n + 2)
                            ELSE Lookup(u.sd, dt, three_hour_discretization, n + 1)
         ELSE Lookup(s, dt, three_hour_discretization, n)

\* lines 73-81: the range check against the first and the last key.
\* update_cache[x] is what self._update_cache() does when self._sd is x:
\* UpdateCache(x, TRUE, src) for the source the call meets.  keys()[-1] of
\* an empty key list raises IndexError
RangeCheck(s, nw, dt, three_hour_discretization, update_cache, n) ==
    IF Instant(dt) < KeyAt(s, 0) THEN Raised(ValueError(MsgBefore), s, n)
    ELSE IF Instant(dt) > KeyAt(s, -1) + TimedeltaHours(GridHours)
         THEN IF Instant(dt) > nw THEN Raised(ValueError(MsgFuture), s, n)
              ELSE LET u == update_cache[s]
                   IN  IF u.exc.type # "none" THEN Raised(u.exc, u.sd, n + 1)
                       ELSE IF ~InRange(u.sd, -1) THEN Raised(IndexError(MsgIndex), u.sd, n + 1)
                       ELSE IF Instant(dt) > KeyAt(u.sd, -1) + TimedeltaHours(GridHours)
                            THEN Raised(ValueError(MsgLater), u.sd, n + 1)
                            ELSE Lookup(u.sd, dt, three_hour_discretization, n + 1)
         ELSE Lookup(s, dt, three_hour_discretization, n)

\* (variant) tzinfo replaced by UTC on every datetime, aware ones too
GetKvAlwaysReplaceTz(s, nw, dt0, three_hour_discretization, update_cache) ==
    LET dt == ReplaceTzinfoUtc(dt0)
    IN  IF SdContains(s, dt) THEN Returned(<<Instant(dt), SdGet(s, dt)>>, s, FALSE, 0)
        ELSE IF SdLen(s) = 0
             THEN LET u == update_cache[s]
                  IN  IF u.exc.type # "none" THEN Raised(u.exc, u.sd, 1)
                      ELSE IF SdLen(u.sd) = 0 THEN Raised(RuntimeError(MsgEmpty), u.sd, 1)
                      ELSE RangeCheck(u.sd, nw, dt, three_hour_discretization, update_cache, 1)
             ELSE RangeCheck(s, nw, dt, three_hour_discretization, update_cache, 0)

\* (variant) no second look at the length after _update_cache: keys()[0] of
\* an empty SortedDict raises IndexError
GetKvNoEmptyRecheck(s, nw, dt0, three_hour_discretization, update_cache) ==
    LET dt == IF ~dt0.aware THEN ReplaceTzinfoUtc(dt0) ELSE dt0
    IN  IF SdContains(s, dt) THEN Returned(<<Instant(dt), SdGet(s, dt)>>, s, FALSE, 0)
        ELSE IF SdLen(s) = 0
             THEN LET u == update_cache[s]
                  IN  IF u.exc.type # "none" THEN Raised(u.exc, u.sd, 1)
                      ELSE IF SdLen(u.sd) = 0 THEN Raised(IndexError(MsgIndex), u.sd, 1)
                      ELSE RangeCheck(u.sd, nw, dt, three_hour_discretization, update_cache, 1)
             ELSE RangeCheck(s, nw, dt, three_hour_discretization, update_cache, 0)

\* (variant) a naive datetime read as local time of the zone MaxOffset
\* ticks east of UTC
GetKvNaiveAsLocal(s, nw, dt0, three_hour_discretization, update_cache) ==
    LET dt == IF ~dt0.aware THEN [dt0 EXCEPT !.aware = TRUE, !.off = MaxOffset] ELSE dt0
    IN  IF SdContains(s, dt) THEN Returned(<<Instant(dt), SdGet(s, dt)>>, s, FALSE, 0)
        ELSE IF SdLen(s) = 0
             THEN LET u == update_cache[s]
                  IN  IF u.exc.type # "none" THEN Raised(u.exc, u.sd, 1)
                      ELSE IF SdLen(u.sd) = 0 THEN Raised(RuntimeError(MsgEmpty), u.sd, 1)
                      ELSE RangeCheck(u.sd, nw, dt, three_hour_discretization, update_cache, 1)
             ELSE RangeCheck(s, nw, dt, three_hour_discretization, update_cache, 0)

\* KpAccessor.get_kv_covering_datetime(dt, three_hour_discretization) run on
\* SortedDict s at wall-clock time nw
GetKvCoveringDatetime(s, nw, dt0, three_hour_discretization, update_cache) ==
    LET dt == IF ~dt0.aware THEN ReplaceTzinfoUtc(dt0) ELSE dt0
    IN  IF SdContains(s, dt) THEN Returned(<<Instant(dt), SdGet(s, dt)>>, s, FALSE, 0)
        ELSE IF SdLen(s) = 0
             THEN LET u == update_cache[s]
                  IN  IF u.exc.type # "none" THEN Raised(u.exc, u.sd, 1)
                      ELSE IF SdLen(u.sd) = 0 THEN Raised(RuntimeError(MsgEmpty), u.sd, 1)
                      ELSE RangeCheck(u.sd, nw, dt, three_hour_discretization, update_cache, 1)
             ELSE RangeCheck(s, nw, dt, three_hour_discretization, update_cache, 0)

\* (variant) no except clause: every exception propagates
GetKeyCoveringDateNoCatch(s, nw, dt, update_cache) ==
    LET r == GetKvCoveringDatetime(s, nw, dt, TRUE, update_cache)
    IN  IF r.exc.type = "none" THEN [r EXCEPT !.ret = <<r.ret[1]>>] ELSE r

\* KpAccessor.get_key_covering_date(dt): the key, or None (<<>>) on ValueError
GetKeyCoveringDate(s, nw, dt, update_cache) ==
    LET r == GetKvCoveringDatetime(s, nw, dt, TRUE, update_cache)
    IN  IF r.exc.type = "none" THEN [r EXCEPT !.ret = <<r.ret[1]>>]
        ELSE IF r.exc.type = "ValueError" THEN [r EXCEPT !.exc = NoExc, !.ret = <<>>]
        ELSE r

\* (variant) ValueError caught as in get_key_covering_date
GetKpFromDatetimeCatching(s, nw, dt, update_cache) ==
    LET r == GetKvCoveringDatetime(s, nw, dt, TRUE, update_cache)
    IN  IF r.exc.type = "none" THEN [r EXCEPT !.ret = <<r.ret[2]>>]
        ELSE IF r.exc.type = "ValueError" THEN [r EXCEPT !.exc = NoExc, !.ret = <<>>]
        ELSE r

\* KpAccessor.get_kp_from_datetime(dt): the value of the pair; nothing is caught
GetKpFromDatetime(s, nw, dt, update_cache) ==
    LET r == GetKvCoveringDatetime(s, nw, dt, TRUE, update_cache)
    IN  IF r.exc.type = "none" THEN [r EXCEPT !.ret = <<r.ret[2]>>] ELSE r

\* KpAccessor.__call__(dt): get_kp_from_datetime(dt)
KpAccessorCall(s, nw, dt, update_cache) == GetKpFromDatetime(s, nw, dt, update_cache)

(* --------------------------- the state machine -------------------------- *)

VARIABLES
    sd,     \* KpAccessor._sd
    now,    \* datetime.now(tz=timezone.utc), in ticks
    call    \* the call that has just ended, until its caller has taken the result

vars == <<sd, now, call>>

\* the last tick a datetime passed in may name: one hour past the end of
\* the last day's last interval
Horizon == NumDays * TicksPerDay + TicksPerHour

\* the UTC offsets of the aware datetimes callers pass in: a zone west of
\* UTC by a part of an hour, UTC itself, a zone one whole hour east
Offsets == {-MaxOffset, 0, TicksPerHour}

\* the datetimes callers pass in: aware ones with an offset, and naive ones
Datetimes ==
    [wall : 0 .. Horizon, aware : {TRUE}, off : Offsets]
        \cup [wall : 0 .. Horizon, aware : {FALSE}, off : {0}]

\* the readings of the wall clock: one hour into each day after day 0
NowValues == {d * TicksPerDay + TicksPerHour : d \in 1 .. NumDays}

\* a source whose download fails
Offline == [cached |-> TRUE, up |-> FALSE, table |-> <<>>]

\* self._update_cache() as one call meets it: UpdateCache(x, TRUE, src) for
\* the SortedDict s the call starts from and for the one its first run leaves
\* (a call runs _update_cache at most twice)
UpdateCacheWith(s, src) ==
    LET u == UpdateCache(s, TRUE, src)
    IN  IF u.sd = s THEN (s :> u) ELSE (s :> u) @@ (u.sd :> UpdateCache(u.sd, TRUE, src))

\* the arguments of get_kv_covering_datetime
Arguments == [dt : Datetimes, disc : BOOLEAN]

\* the arguments with which a call on s at time nw runs _update_cache
Refreshing(s, nw, args) ==
    LET update_cache == UpdateCacheWith(s, Offline)
    IN  {a \in args :
            GetKvCoveringDatetime(s, nw, a.dt, a.disc, update_cache).refreshes > 0}

\* what the calls on s at time nw can meet: each source with the effect of
\* self._update_cache() under it and the arguments taken with it.  A call
\* that does not run _update_cache meets no source: it is taken once, with
\* the source Offline
Meetings(s, nw, args) ==
    LET refreshing == Refreshing(s, nw, args)
    IN  {[src |-> src, update_cache |-> UpdateCacheWith(s, src),
          args |-> IF src = Offline THEN args ELSE refreshing] : src \in Sources({TRUE})}

Idle ==
    [op |-> "idle", dt |-> [wall |-> 0, aware |-> TRUE, off |-> 0], disc |-> FALSE,
     pre |-> EmptySd, src |-> <<>>, exc |-> NoExc, ret |-> <<>>, warned |-> FALSE,
     refreshes |-> 0, inner |-> [exc |-> NoExc, ret |-> <<>>], fallback |-> <<>>]

\* what a call leaves for its caller: its arguments, the SortedDict it
\* started from, the source it met if it ran _update_cache, and its outcome
Ended(op, a, src, r) ==
    [op |-> op, dt |-> a.dt, disc |-> a.disc, pre |-> sd,
     src |-> IF r.refreshes = 0 THEN <<>> ELSE src, exc |-> r.exc,
     ret |-> r.ret, warned |-> r.warned, refreshes |-> r.refreshes, inner |-> r.inner,
     fallback |-> r.fallback]

\* KpAccessor.__init__: an empty SortedDict, then _update_cache(force_run=False);
\* the object exists when that did not raise
Init ==
    /\ \E src \in Sources(BOOLEAN) :
          \E u \in {UpdateCache(EmptySd, FALSE, src)} :
             u.exc.type = "none" /\ sd = u.sd
    /\ now \in NowValues
    /\ call = Idle

\* a call of get_kv_covering_datetime(dt, three_hour_discretization), with
\* any datetime and flag, under any source
Query ==
    /\ call.op = "idle"
    /\ \E m \in Meetings(sd, now, Arguments) :
          \E a \in m.args :
             \E r \in {GetKvCoveringDatetime(sd, now, a.dt, a.disc, m.update_cache)} :
                /\ sd' = r.sd
                /\ call' = Ended("query", a, m.src, r)
    /\ UNCHANGED now

\* a call of get_key_covering_date(dt), with any datetime, under any source
GetKey ==
    /\ call.op = "idle"
    /\ \E m \in Meetings(sd, now, [dt : Datetimes, disc : {TRUE}]) :
          \E a \in m.args :
             \E r \in {GetKeyCoveringDate(sd, now, a.dt, m.update_cache)} :
                /\ sd' = r.sd
                /\ call' = Ended("get_key", a, m.src, r)
    /\ UNCHANGED now

\* a call of get_kp_from_datetime(dt), with any datetime, under any source
GetValue ==
    /\ call.op = "idle"
    /\ \E m \in Meetings(sd, now, [dt : Datetimes, disc : {TRUE}]) :
          \E a \in m.args :
             \E r \in {GetKpFromDatetime(sd, now, a.dt, m.update_cache)} :
                /\ sd' = r.sd
                /\ call' = Ended("get_value", a, m.src, r)
    /\ UNCHANGED now

\* a call of the accessor itself, accessor(dt), with any datetime, under any source
CallAccessor ==
    /\ call.op = "idle"
    /\ \E m \in Meetings(sd, now, [dt : Datetimes, disc : {TRUE}]) :
          \E a \in m.args :
             \E r \in {KpAccessorCall(sd, now, a.dt, m.update_cache)} :
                /\ sd' = r.sd
                /\ call' = Ended("call", a, m.src, r)
    /\ UNCHANGED now

\* a call of _update_cache() by itself, under any source
Refresh ==
    /\ call.op = "idle"
    /\ \E src \in Sources({TRUE}) :
          \E u \in {UpdateCache(sd, TRUE, src)} :
             /\ sd' = u.sd
             /\ call' = [Idle EXCEPT !.op = "refresh", !.pre = sd, !.src = src,
                                     !.exc = u.exc, !.refreshes = 1, !.inner.exc = u.exc]
    /\ UNCHANGED now

\* the caller takes the result
Return ==
    /\ call.op # "idle"
    /\ call' = Idle
    /\ UNCHANGED <<sd, now>>

\* the wall clock moves on
Tick ==
    /\ call.op = "idle"
    /\ \E n \in NowValues : n > now /\ now' = n
    /\ UNCHANGED <<sd, call>>

Next ==
    \/ Query
    \/ GetKey
    \/ GetValue
    \/ CallAccessor
    \/ Refresh
    \/ Return
    \/ Tick

Spec == Init /\ [][Next]_vars


(* ------------------------- vocabulary of the claims --------------------- *)

\* the instant a datetime passed in denotes: a naive one is taken as UTC
Utc(dt) == IF dt.aware THEN dt.wall - dt.off ELSE dt.wall

Keys(s) == DOMAIN s.val

Populated(s) == Keys(s) # {}

\* the ticks of one 3-hour interval, and the grid of interval starts
GridTicks == GridHours * TicksPerHour

GridAligned(t) == t % GridTicks = 0

GridFloor(t) == t - (t % GridTicks)

\* t is before the first key / beyond the last key by more than one interval
BeforeFirst(s, t) == \A k \in Keys(s) : t < k

BeyondLast(s, t) == \A k \in Keys(s) : t > k + GridTicks

\* k is the greatest key of s that is at or before t / strictly before t
GreatestAtOrBefore(s, k, t) == k \in Keys(s) /\ k <= t /\ \A j \in Keys(s) : j <= t => j <= k

GreatestBefore(s, k, t) == k \in Keys(s) /\ k < t /\ \A j \in Keys(s) : j < t => j <= k

\* the call returned the pair of key k
ReturnedPair(k) == call.exc = NoExc /\ call.ret = <<k, sd.val[k]>>

BeforeEarliest == ValueError(MsgBefore)
FutureTimestamp == ValueError(MsgFuture)
LaterThanLatest == ValueError(MsgLater)
CacheEmpty == RuntimeError(MsgEmpty)
\* a failed load: the download, or a row of the table
SourceUnavailable == {RuntimeError(MsgDownload), ValueError(MsgBadDate)}

\* self._update_cache() as the call that has just ended met it, or would
\* have met it had it run it, on the SortedDict it started from and on the
\* one it left
MetUpdateCache ==
    [x \in {call.pre, sd} |->
        UpdateCache(x, TRUE, IF call.refreshes = 0 THEN Offline ELSE call.src)]

\* the load from a source fails: the download, or a row of the table
LoadFails(src) == ~src.up \/ \E i \in 1 .. Len(src.table) : ~ValidDate(src.table[i])

\* the table supplies the sample whose 3-hour interval holds the instant t
Covers(table, t) ==
    \E i \in 1 .. Len(table), j \in 1 .. Len(Hours) :
       LET k == table[i].day * TicksPerDay + Hours[j] * TicksPerHour
       IN  k <= t /\ t < k + GridTicks

\* the samples a table supplies: its (instant, value) pairs
Samples(table) ==
    {<<table[i].day * TicksPerDay + Hours[j] * TicksPerHour, table[i].kp[j]>> :
        i \in 1 .. Len(table), j \in 1 .. Len(Hours)}

\* the SortedDict is well formed: the key list is the keys in rising order,
\* and every key is on the 3-hour grid
SdWellFormed ==
    /\ Len(sd.keys) = Cardinality(Keys(sd))
    /\ \A i \in 1 .. Len(sd.keys) : sd.keys[i] \in Keys(sd) /\ GridAligned(sd.keys[i])
    /\ \A i \in 1 .. Len(sd.keys) - 1 : sd.keys[i] < sd.keys[i + 1]

(* -------------------------------- claims -------------------------------- *)

\* C1: on a populated index of grid-aligned keys, a query that succeeds
\* returns, with either flag, the greatest key of the index (as it stands
\* on return) at or before the UTC-normalized instant, with that key's
\* value: never a later key.
C1_LeftNearest ==
    (call.op = "query" /\ Populated(call.pre) /\ call.exc = NoExc
        /\ \A k \in Keys(call.pre) : GridAligned(k))
    => /\ Len(call.ret) = 2
       /\ GreatestAtOrBefore(sd, call.ret[1], Utc(call.dt))
       /\ ReturnedPair(call.ret[1])

\* a query has returned a key although a later key lies nearer to the instant
C1_Witness ==
    /\ call.op = "query" /\ Populated(call.pre) /\ call.exc = NoExc
    /\ \E k \in Keys(sd) : k > Utc(call.dt) /\ k - Utc(call.dt) < Utc(call.dt) - call.ret[1]

\* C2: a query for an instant that is a key returns that key and its value
\* with either flag, through the first exact check: _update_cache is not
\* run, no warning is emitted, nothing is raised.
C2_ExactMatch ==
    (call.op = "query" /\ Utc(call.dt) \in Keys(call.pre))
    => /\ call.exc = NoExc
       /\ call.ret = <<Utc(call.dt), call.pre.val[Utc(call.dt)]>>
       /\ call.refreshes = 0 /\ ~call.warned /\ sd = call.pre

\* a key was asked for without discretization, by a datetime in another zone
C2_Witness ==
    /\ call.op = "query" /\ Utc(call.dt) \in Keys(call.pre)
    /\ ~call.disc /\ call.dt.aware /\ call.dt.off # 0 /\ call.exc = NoExc

\* C3: for an instant strictly between two adjacent keys left < right
\* (three hours apart or further), a query with either flag returns left
\* and its value.
C3_Between ==
    \A left \in Keys(call.pre) :
       (/\ call.op = "query"
        /\ GreatestBefore(call.pre, left, Utc(call.dt))
        /\ Utc(call.dt) \notin Keys(call.pre)
        /\ \E right \in Keys(call.pre) : Utc(call.dt) < right)
       => call.exc = NoExc /\ call.ret = <<left, call.pre.val[left]>>

\* an instant inside a gap of missing slots was asked for without discretization
C3_Witness ==
    /\ call.op = "query" /\ ~call.disc /\ call.exc = NoExc
    /\ Utc(call.dt) - call.ret[1] > GridTicks
    /\ \E right \in Keys(call.pre) : Utc(call.dt) < right

\* C4: with discretization, when the instant is no key, the call gets past
\* the empty check and the range check, and the grid floor of the instant
\* is no key either, the warning is emitted and the call returns the
\* greatest key strictly before the grid floor, with its value.
C4_GapFallback ==
    (/\ call.op = "query" /\ call.disc
     /\ call.exc \notin ({BeforeEarliest, FutureTimestamp, LaterThanLatest, CacheEmpty}
                           \cup SourceUnavailable)
     /\ Utc(call.dt) \notin Keys(sd)
     /\ GridFloor(Utc(call.dt)) \notin Keys(sd))
    => /\ call.warned
       /\ Len(call.ret) = 2
       /\ GreatestBefore(sd, call.ret[1], GridFloor(Utc(call.dt)))
       /\ ReturnedPair(call.ret[1])

\* the warning was emitted for a slot missing inside the index
C4_Witness ==
    /\ call.op = "query" /\ call.disc /\ call.warned /\ call.exc = NoExc
    /\ \E right \in Keys(sd) : Utc(call.dt) < right

\* C5: on a populated index, a query for an instant before the first key
\* raises BeforeEarliest with either flag, whatever the wall clock says.
C5_BeforeEarliest ==
    (call.op = "query" /\ Populated(call.pre) /\ BeforeFirst(call.pre, Utc(call.dt)))
    => call.exc = BeforeEarliest

\* an instant before the first key, and after now, asked without discretization
C5_Witness ==
    /\ call.op = "query" /\ Populated(call.pre) /\ BeforeFirst(call.pre, Utc(call.dt))
    /\ ~call.disc /\ Utc(call.dt) > now

\* C6: on a populated index, a query for an instant later than the last key
\* plus three hours and later than now raises FutureTimestamp, before any
\* run of _update_cache: the index is as it was.
C6_Future ==
    (/\ call.op = "query" /\ Populated(call.pre)
     /\ BeyondLast(call.pre, Utc(call.dt)) /\ Utc(call.dt) > now)
    => call.exc = FutureTimestamp /\ call.refreshes = 0 /\ sd = call.pre

C6_Witness ==
    /\ call.op = "query" /\ Populated(call.pre)
    /\ BeyondLast(call.pre, Utc(call.dt)) /\ Utc(call.dt) > now
    /\ call.exc = FutureTimestamp

\* C7 as stated: on a populated index, a query for an instant later than the
\* last key plus three hours and not later than now runs _update_cache, and
\* raises LaterThanLatest exactly when the instant is still later than the
\* last key plus three hours of the index after that run.
C7_AsStated ==
    (/\ call.op = "query" /\ Populated(call.pre)
     /\ BeyondLast(call.pre, Utc(call.dt)) /\ Utc(call.dt) <= now)
    => /\ call.refreshes = 1
       /\ (call.exc = LaterThanLatest <=> BeyondLast(sd, Utc(call.dt)))

\* C7 amended: ... runs _update_cache once; when that run raises, its
\* exception is what the query raises; when it returns, the query raises
\* LaterThanLatest exactly when the instant is still later than the last
\* key plus three hours of the index after that run.
C7_LaterThanLatest ==
    (/\ call.op = "query" /\ Populated(call.pre)
     /\ BeyondLast(call.pre, Utc(call.dt)) /\ Utc(call.dt) <= now)
    => /\ call.refreshes = 1
       /\ \/ call.exc \in SourceUnavailable
          \/ (call.exc = LaterThanLatest <=> BeyondLast(sd, Utc(call.dt)))

\* _update_cache returned without reaching the instant, and then with a
\* longer index that still does not reach it
C7_Witness ==
    /\ call.op = "query" /\ Populated(call.pre)
    /\ BeyondLast(call.pre, Utc(call.dt)) /\ Utc(call.dt) <= now
    /\ call.exc = LaterThanLatest /\ sd # call.pre

\* C8: after _update_cache has returned, the index holds exactly the samples
\* the source supplies: each of them, and no key the source does not supply.
C8_ExactlySupplied ==
    (call.op = "refresh" /\ call.exc = NoExc)
    => {<<k, sd.val[k]>> : k \in Keys(sd)} = Samples(call.src.table)

\* C9: get_key_covering_date returns None where get_kv_covering_datetime
\* with discretization raises BeforeEarliest, FutureTimestamp or
\* LaterThanLatest, and the key of the returned pair where it returns one.
C9_CoveringInstant ==
    call.op = "get_key"
    => /\ call.inner.exc \in {BeforeEarliest, FutureTimestamp, LaterThanLatest}
             => call.exc = NoExc /\ call.ret = <<>>
       /\ call.inner.exc = NoExc
             => /\ call.exc = NoExc /\ call.ret = <<call.inner.ret[1]>>
                /\ GreatestAtOrBefore(sd, call.ret[1], Utc(call.dt))

\* None was returned for an instant that _update_cache did not reach
C9_Witness ==
    /\ call.op = "get_key" /\ call.inner.exc = LaterThanLatest
    /\ call.exc = NoExc /\ call.ret = <<>> /\ call.refreshes = 1

\* C10: get_key_covering_date does not turn CacheEmpty or SourceUnavailable
\* into None: when _update_cache fails underneath (download or table row)
\* or leaves the index empty, that failure is raised to the caller.
C10_FailuresPropagate ==
    (call.op = "get_key" /\ call.inner.exc \in SourceUnavailable \cup {CacheEmpty})
    => call.exc = call.inner.exc

\* C11: a source that yields no sample lets the constructor return with an
\* empty index, and every query on that index, whatever the instant, runs
\* _update_cache and, the source still yielding no sample, raises
\* CacheEmpty: no range error, no IndexError.
C11_EmptySource ==
    (call.op = "query" /\ ~Populated(call.pre))
    => /\ call.refreshes >= 1
       /\ (call.src.up /\ call.src.table = <<>>)
             => call.exc = CacheEmpty /\ call.refreshes = 1 /\ sd = EmptySd

\* CacheEmpty was raised for an instant later than now
C11_Witness ==
    /\ call.op = "query" /\ call.pre = EmptySd /\ call.src.up /\ call.src.table = <<>>
    /\ call.exc = CacheEmpty /\ Utc(call.dt) > now

\* C12: a populated index stays populated: no call of
\* get_kv_covering_datetime, get_key_covering_date, get_kp_from_datetime,
\* the accessor itself or _update_cache, whether it returns or raises and
\* whatever the source then supplies, leaves the index empty.
C12_StaysPopulated == [][Populated(sd) => Populated(sd')]_vars

\* _update_cache has returned on a populated index under a source that
\* supplies no sample
C12_Witness ==
    /\ call.op = "refresh" /\ Populated(call.pre) /\ call.exc = NoExc
    /\ call.src.table = <<>> /\ Populated(sd)

\* C13: when the grid floor of the UTC instant of a datetime (minutes and
\* below zeroed, hour mod 3 hours subtracted, all on the UTC fields) is a
\* key g, get_kp_from_datetime returns the value of g and
\* get_kv_covering_datetime with discretization returns g with its value,
\* with no run of _update_cache and no warning, whatever UTC offset the
\* datetime carries.
C13_GridFloorRoundTrip ==
    LET g == GridFloor(Utc(call.dt))
    IN  (call.op \in {"query", "get_value"} /\ call.disc /\ g \in Keys(call.pre))
        => /\ call.exc = NoExc /\ call.refreshes = 0 /\ ~call.warned /\ sd = call.pre
           /\ call.op = "query" => call.ret = <<g, call.pre.val[g]>>
           /\ call.op = "get_value" => call.ret = <<call.pre.val[g]>>

\* a value was returned for a datetime with an offset that is no whole hour,
\* whose local wall fields floor to another 3-hour slot than its UTC fields
C13_Witness ==
    /\ call.op = "get_value" /\ call.exc = NoExc
    /\ call.dt.aware /\ call.dt.off % TicksPerHour # 0
    /\ GridFloor(Utc(call.dt)) \in Keys(call.pre)
    /\ GridFloor(call.dt.wall) - call.dt.off # GridFloor(Utc(call.dt))
    /\ Len(call.ret) = 1 /\ call.ret[1] = call.pre.val[GridFloor(Utc(call.dt))]

\* C14: a naive datetime is taken as UTC, unshifted: a query with it ends
\* as the query with the UTC-aware datetime of the same wall fields ends
\* from the same index under the same source (same pair or same exception,
\* same index left behind), so a naive datetime whose wall fields are
\* those of a key returns that key.
C14_NaiveIsUtc ==
    (call.op = "query" /\ ~call.dt.aware)
    => /\ LET r == GetKvCoveringDatetime(call.pre, now, ReplaceTzinfoUtc(call.dt),
                                          call.disc, MetUpdateCache)
          IN  call.exc = r.exc /\ call.ret = r.ret /\ sd = r.sd /\ call.warned = r.warned
       /\ call.dt.wall \in Keys(call.pre)
             => call.exc = NoExc /\ call.ret = <<call.dt.wall, call.pre.val[call.dt.wall]>>

\* a naive datetime with the wall fields of a key has returned that key
C14_Witness ==
    /\ call.op = "query" /\ ~call.dt.aware /\ call.dt.wall \in Keys(call.pre)
    /\ call.exc = NoExc /\ call.ret[1] = call.dt.wall

\* C15: from the same index under the same source, get_kp_from_datetime(dt)
\* and the accessor called as accessor(dt) end as
\* get_kv_covering_datetime(dt, True) ends: the value of its pair when it
\* returns, its exception when it raises, and the same index left behind.
C15_ValueShorthands ==
    (call.op \in {"get_value", "call"})
    => LET q == GetKvCoveringDatetime(call.pre, now, call.dt, TRUE, MetUpdateCache)
       IN  /\ call.exc = q.exc /\ sd = q.sd
           /\ q.exc = NoExc => call.ret = <<q.ret[2]>>
           /\ q.exc # NoExc => call.ret = <<>>

\* the accessor called as a function has raised a range error
C15_Witness ==
    /\ call.op = "call" /\ call.exc = LaterThanLatest /\ sd # call.pre

\* C16: when the load fails in a run of _update_cache made by a query (on
\* an empty index, or in the range check), the query raises that failure
\* as it is: _update_cache is not run again, no range error takes its
\* place, and no pair is returned from the index as it was.
C16_LoadFailureSurfaces ==
    (call.op = "query" /\ call.refreshes >= 1 /\ LoadFails(call.src))
    => /\ call.exc = (IF ~call.src.up THEN RuntimeError(MsgDownload)
                                       ELSE ValueError(MsgBadDate))
       /\ call.exc \in SourceUnavailable
       /\ call.refreshes = 1 /\ call.ret = <<>>

\* the download failed in the range check of a query on a populated index
C16_Witness ==
    /\ call.op = "query" /\ Populated(call.pre) /\ call.refreshes = 1
    /\ ~call.src.up /\ call.exc = RuntimeError(MsgDownload)

\* C17: whenever a query reaches the bisection, bisect_left of the search
\* point minus one is a position 0 .. len-1 of the index: the subscript
\* neither wraps around to the last entry nor raises, with the discretized
\* datetime as search point and after a run of _update_cache in the range
\* check as well.
C17_FallbackInBounds ==
    (call.op = "query" /\ Len(call.fallback) = 1)
    => /\ 0 <= call.fallback[1] /\ call.fallback[1] < SdLen(sd)
       /\ call.exc = NoExc /\ call.ret = ItemAt(sd, call.fallback[1])

\* the bisection was reached with a discretized search point after
\* _update_cache had changed the index
C17_Witness ==
    /\ call.op = "query" /\ call.disc /\ call.warned /\ Len(call.fallback) = 1
    /\ Populated(call.pre) /\ call.refreshes = 1 /\ sd # call.pre
    /\ GridFloor(Utc(call.dt)) < Utc(call.dt)

\* C18: every instant for which a query gets past the range check lies in
\* the half-open interval from the first key to the last key plus three
\* hours, of the index as the range check leaves it: the instant equal to
\* the last key plus three hours is not taken as covered by the last key.
C18_HalfOpenRange ==
    (call.op = "query" /\ call.exc = NoExc)
    => /\ KeyAt(sd, 0) <= Utc(call.dt)
       /\ Utc(call.dt) < KeyAt(sd, -1) + GridTicks

\* C19: on a populated index whose last key plus three hours is earlier
\* than the instant, the instant not later than now, a query runs
\* _update_cache once and, when the source then loads and supplies the
\* sample whose interval holds the instant, returns: the pair of the
\* greatest key at or before the instant, taken from what was loaded (the
\* instant itself when it was loaded as a key).  It does not raise
\* LaterThanLatest.
C19_StaleThenFresh ==
    (/\ call.op = "query" /\ Populated(call.pre)
     /\ BeyondLast(call.pre, Utc(call.dt)) /\ Utc(call.dt) <= now)
    => /\ call.refreshes = 1
       /\ (~LoadFails(call.src) /\ Covers(call.src.table, Utc(call.dt)))
             => /\ Len(call.ret) = 2
                /\ GreatestAtOrBefore(sd, call.ret[1], Utc(call.dt))
                /\ ReturnedPair(call.ret[1])
                /\ <<call.ret[1], call.ret[2]>> \in Samples(call.src.table)
                /\ Utc(call.dt) \in Keys(sd) => call.ret[1] = Utc(call.dt)

\* a query on a stale index has returned the instant itself, loaded by the
\* run of _update_cache it made
C19_Witness ==
    /\ call.op = "query" /\ Populated(call.pre)
    /\ BeyondLast(call.pre, Utc(call.dt)) /\ Utc(call.dt) <= now
    /\ call.exc = NoExc /\ call.ret[1] = Utc(call.dt) /\ Utc(call.dt) \notin Keys(call.pre)

\* C20: on a populated index a query leaves the index as it was and does
\* not run _update_cache when the instant is a key, lies from the first key
\* to the last key plus three hours, or the query raises BeforeEarliest or
\* FutureTimestamp: only a query for an instant later than the last key
\* plus three hours and not later than now can change the index.
C20_QueryFrame ==
    (call.op = "query" /\ Populated(call.pre))
    => /\ ~(BeyondLast(call.pre, Utc(call.dt)) /\ Utc(call.dt) <= now)
             => sd = call.pre /\ call.refreshes = 0
       /\ call.exc \in {BeforeEarliest, FutureTimestamp}
             => sd = call.pre /\ call.refreshes = 0
       /\ sd # call.pre
             => BeyondLast(call.pre, Utc(call.dt)) /\ Utc(call.dt) <= now

\* a query has gone through the bisection, inside the range of a populated
\* index, and left the index as it was
C20_Witness ==
    /\ call.op = "query" /\ Populated(call.pre) /\ Len(call.fallback) = 1
    /\ call.refreshes = 0 /\ sd = call.pre /\ call.exc = NoExc

\* C21: one query runs _update_cache at most once on finding the index
\* empty and at most once in the range check, so at most twice: twice only
\* when the index was empty, the first run populated it, and the instant
\* is not later than now and still later than the last key plus three
\* hours.  Once CacheEmpty or LaterThanLatest is decided the call ends with
\* no further run.
C21_NoRefreshLoop ==
    call.op = "query"
    => /\ call.refreshes <= 2
       /\ Populated(call.pre) => call.refreshes <= 1
       /\ call.refreshes = 2
             => /\ ~Populated(call.pre)
                /\ LET first == UpdateCache(EmptySd, TRUE, call.src)
                   IN  /\ first.exc = NoExc /\ Populated(first.sd)
                       /\ BeyondLast(first.sd, Utc(call.dt)) /\ Utc(call.dt) <= now
       /\ call.exc = CacheEmpty => call.refreshes = 1 /\ ~Populated(call.pre)
       /\ call.exc = LaterThanLatest
             => call.refreshes = (IF Populated(call.pre) THEN 1 ELSE 2)

\* _update_cache ran twice in one query, which then raised LaterThanLatest
C21_Witness ==
    /\ call.op = "query" /\ call.refreshes = 2 /\ ~Populated(call.pre)
    /\ Populated(sd) /\ call.exc = LaterThanLatest

\* C22: _update_cache is idempotent on a populated index: run again under
\* the same source it ends as it has just ended and leaves the index as
\* the first run left it; and under a source whose samples the index
\* already holds it leaves the index, and with it the outcome of every
\* query (which the index, the clock and the source decide), as it was.
C22_RefreshIdempotent ==
    (call.op = "refresh" /\ Populated(call.pre))
    => /\ UpdateCache(sd, TRUE, call.src) = [exc |-> call.exc, sd |-> sd]
       /\ (/\ call.exc = NoExc
           /\ Samples(call.src.table) \subseteq {<<k, call.pre.val[k]>> : k \in Keys(call.pre)})
          => sd = call.pre

\* _update_cache has returned under a source whose samples the populated
\* index already held
C22_Witness ==
    /\ call.op = "refresh" /\ Populated(call.pre) /\ call.exc = NoExc
    /\ Len(call.src.table) > 0
    /\ Samples(call.src.table) \subseteq {<<k, call.pre.val[k]>> : k \in Keys(call.pre)}
    /\ sd = call.pre

==========================================================================
